---- MODULE Spec2Model ----
(***************************************************************************)
(* A model of the planar-geometry kernel (core/geometry): Point2D,         *)
(* Vector2D, Line2D and LineSegment2D.                                     *)
(*                                                                         *)
(* Two kinds of specification are used.                                    *)
(*   SpecCalls  one call of one function or constructor: Init draws the    *)
(*              call's arguments from bounded sets, the function's action  *)
(*              evaluates it as the code does and records what the call    *)
(*              returned or raised.                                        *)
(*   Spec       the object graph: Point2D objects live in a heap and a     *)
(*              LineSegment2D holds REFERENCES to two of them, as Python   *)
(*              stores them; the mutators update the referenced objects    *)
(*              in place.                                                  *)
(* Numbers are integers (vector components are fractions n/d): every       *)
(* operation modelled here is exact on small integer-valued floats.        *)
(***************************************************************************)
EXTENDS Integers, Sequences, FiniteSets, TLC

VARIABLES
  call,      \* SpecCalls: [fn, args, done, ret], the call under study
  points,    \* Spec: heap of Point2D objects, id -> [x, y]
  segments,  \* Spec: LineSegment2D objects, id -> [start_point, end_point] (point ids)
  last       \* Spec: the last operation: [op, seg]

vars == <<call, points, segments, last>>

(***************************************************************************)
(* Bounds                                                                  *)
(***************************************************************************)
CoordMax       == 2   \* point coordinates of the single-point/triple calls: -CoordMax..CoordMax
SegMax         == 2   \* endpoint coordinates of the segment calls: 0..SegMax
RecursionLimit == 6   \* frames the interpreter allows before RecursionError
MaxPointStr    == 4   \* length of the strings given to Point2D.from_str
MaxSegmentStr  == 7   \* length of the strings given to the segment's from_str
VecMax         == 2   \* vector components and scalars: -VecMax..VecMax
MaxPoints      == 3   \* Point2D objects in the heap
MaxSegments    == 2   \* LineSegment2D objects in the heap
HeapMax        == 1   \* coordinates of the heap's points: -HeapMax..HeapMax
LineMax        == 3   \* positions along a line of the collinear segments: 0..LineMax

Coord    == (0 - CoordMax)..CoordMax
SegCoord == 0..SegMax

Point(px, py) == [x |-> px, y |-> py]

GridPoints == { Point(px, py) : px \in Coord, py \in Coord }
SegPoints  == { Point(px, py) : px \in SegCoord, py \in SegCoord }

(***************************************************************************)
(* Outcomes of a call that can raise                                       *)
(***************************************************************************)
Raise(e) == [kind |-> e]

\* RecursionError: the interpreter refuses the frame number depth
TooDeep(depth) == depth > RecursionLimit

(***************************************************************************)
(* core/util enumerations                                                  *)
(***************************************************************************)
CLOCKWISE        == "clockwise"
COUNTERCLOCKWISE == "counterclockwise"
COLINEAR         == "colinear"

Orientation == {CLOCKWISE, COUNTERCLOCKWISE, COLINEAR}

ONE    == "one"
TWO    == "two"
THREE  == "three"
FOUR   == "four"
ORIGIN == "origin"
NONE   == "none"

Quadrant == {ONE, TWO, THREE, FOUR, ORIGIN, NONE}

(***************************************************************************)
(* Point2D                                                                 *)
(***************************************************************************)

\* Point2D.__eq__ on two Point2D objects
Point2D_eq(self, other) == self.x = other.x /\ self.y = other.y

\* quadrant testing the origin with 'or' (as the vector's quadrant does for its axes)
quadrant_or(self) ==
  IF self.x = 0 \/ self.y = 0 THEN ORIGIN
  ELSE IF self.x > 0 THEN (IF self.y > 0 THEN ONE ELSE FOUR)
  ELSE (IF self.y > 0 THEN TWO ELSE THREE)

\* _PointProperties.quadrant
quadrant(self) ==
  IF self.x = 0 /\ self.y = 0 THEN ORIGIN
  ELSE IF self.x > 0 THEN (IF self.y > 0 THEN ONE ELSE FOUR)
  ELSE (IF self.y > 0 THEN TWO ELSE THREE)

\* get_orientation with the two products exchanged
get_orientation_swapped(point_1, point_2, point_3) ==
  LET orientation ==
        ((point_2.x - point_1.x) * (point_3.y - point_2.y)) -
        ((point_2.y - point_1.y) * (point_3.x - point_2.x))
  IN  IF orientation > 0 THEN CLOCKWISE
      ELSE IF orientation < 0 THEN COUNTERCLOCKWISE
      ELSE COLINEAR

\* get_orientation measuring the third point from point_1 in one product only
get_orientation_skewed(point_1, point_2, point_3) ==
  LET orientation ==
        ((point_2.y - point_1.y) * (point_3.x - point_1.x)) -
        ((point_2.x - point_1.x) * (point_3.y - point_2.y))
  IN  IF orientation > 0 THEN CLOCKWISE
      ELSE IF orientation < 0 THEN COUNTERCLOCKWISE
      ELSE COLINEAR

\* Point2D.get_orientation
get_orientation(point_1, point_2, point_3) ==
  LET orientation ==
        ((point_2.y - point_1.y) * (point_3.x - point_2.x)) -
        ((point_2.x - point_1.x) * (point_3.y - point_2.y))
  IN  IF orientation > 0 THEN CLOCKWISE
      ELSE IF orientation < 0 THEN COUNTERCLOCKWISE
      ELSE COLINEAR

(***************************************************************************)
(* LineSegment2D: the queries                                              *)
(***************************************************************************)
Segment(p, q) == [start_point |-> p, end_point |-> q]

max(a, b) == IF a >= b THEN a ELSE b
min(a, b) == IF a <= b THEN a ELSE b

\* on_segment testing the x range only
on_segment_x_only(segment, point) ==
  /\ point.x <= max(segment.start_point.x, segment.end_point.x)
  /\ point.x >= min(segment.start_point.x, segment.end_point.x)

\* LineSegment2D.on_segment (static): the point lies in the segment's bounding box
on_segment(segment, point) ==
  /\ point.x <= max(segment.start_point.x, segment.end_point.x)
  /\ point.x >= min(segment.start_point.x, segment.end_point.x)
  /\ point.y <= max(segment.start_point.y, segment.end_point.y)
  /\ point.y >= min(segment.start_point.y, segment.end_point.y)

\* LineSegment2D.intersects
intersects(self, line_segment) ==
  LET orientation_1 == get_orientation(self.start_point, self.end_point,
                                       line_segment.start_point)
      orientation_2 == get_orientation(self.start_point, self.end_point,
                                       line_segment.end_point)
      orientation_3 == get_orientation(line_segment.start_point,
                                       line_segment.end_point, self.start_point)
      orientation_4 == get_orientation(line_segment.start_point,
                                       line_segment.end_point, self.end_point)
  IN  IF orientation_1 # orientation_2 /\ orientation_3 # orientation_4 THEN TRUE
      ELSE IF orientation_1 = COLINEAR /\ on_segment(self, line_segment.start_point)
        THEN TRUE
      ELSE IF orientation_1 = COLINEAR /\ on_segment(self, line_segment.end_point)
        THEN TRUE
      ELSE IF orientation_1 = COLINEAR /\ on_segment(line_segment, self.end_point)
        THEN TRUE
      ELSE IF orientation_1 = COLINEAR /\ on_segment(line_segment, self.end_point)
        THEN TRUE
      ELSE FALSE

\* the segments the class invariant allows: two distinct endpoints
ValidSegments ==
  { Segment(p, q) : p \in SegPoints, q \in SegPoints } \
  { Segment(p, p) : p \in SegPoints }

(***************************************************************************)
(* Construction: the dataclass __init__ / __post_init__ protocol           *)
(*                                                                         *)
(* @dataclass gives every class of a hierarchy its own __init__, which     *)
(* stores the fields and then calls self.__post_init__() when the class    *)
(* has one. That call is dispatched on the class of the object under       *)
(* construction, and each __post_init__ calls super().__init__, the        *)
(* generated __init__ of the base class.                                   *)
(***************************************************************************)
Converters == {"_Point2DConverter", "_LineSegment2DConverter", "_Vector2DConverter"}

PointClasses   == {"_Point2DConverter", "_PointProperties", "_Point2DConstructor", "Point2D"}
SegmentClasses == {"_LineSegment2DConverter", "_LineSegment2DProperties",
                   "_LineSegment2DConstructor", "LineSegment2D"}
VectorClasses  == {"_Vector2DConverter", "_Vector2DProperties", "_Vector2DConstructor",
                   "Vector2D"}

\* the base class named in the class statement
Base(cls) ==
  CASE cls = "Point2D"                   -> "_Point2DConstructor"
    [] cls = "_Point2DConstructor"       -> "_PointProperties"
    [] cls = "_PointProperties"          -> "_Point2DConverter"
    [] cls = "LineSegment2D"             -> "_LineSegment2DProperties"
    [] cls = "_LineSegment2DConstructor" -> "_LineSegment2DProperties"
    [] cls = "_LineSegment2DProperties"  -> "_LineSegment2DConverter"
    [] cls = "Vector2D"                  -> "_Vector2DConstructor"
    [] cls = "_Vector2DConstructor"      -> "_Vector2DProperties"
    [] cls = "_Vector2DProperties"       -> "_Vector2DConverter"
    [] OTHER                             -> "object"

\* hasattr(cls, "__post_init__"): every class but the converters defines one
HasPostInit(cls) == cls \notin Converters /\ cls # "object"

\* a number is falsy exactly when it is zero (components are fractions n/d)
Truthy(q) == q.n # 0

\* the check a __post_init__ makes before it calls super().__init__
PostInitCheck(cls, fields) ==
  IF cls = "LineSegment2D" /\ Point2D_eq(fields.start_point, fields.end_point)
    THEN "InvalidLineSegment"
  ELSE IF cls = "Vector2D" /\ ~Truthy(fields.x) /\ ~Truthy(fields.y)
    THEN "InvalidVector"
  ELSE "pass"

\* the constructed object
Object(cls, fields) == [kind |-> "ok", cls |-> cls, value |-> fields]

RECURSIVE dataclass_init(_, _, _, _)
RECURSIVE post_init(_, _, _)

\* the __init__ that @dataclass generates for cls, run on an object of class self_cls
dataclass_init(cls, self_cls, fields, depth) ==
  IF TooDeep(depth) THEN Raise("RecursionError")
  ELSE IF HasPostInit(cls) THEN post_init(self_cls, fields, depth + 1)
  ELSE Object(self_cls, fields)

\* self.__post_init__() on an object of class self_cls
post_init(self_cls, fields, depth) ==
  IF TooDeep(depth) THEN Raise("RecursionError")
  ELSE IF PostInitCheck(self_cls, fields) # "pass"
    THEN Raise(PostInitCheck(self_cls, fields))
  ELSE dataclass_init(Base(self_cls), self_cls, fields, depth + 1)

\* cls(...): the call of the class
Construct(cls, fields) == dataclass_init(cls, cls, fields, 1)

(***************************************************************************)
(* Strings: sequences of one-character strings                             *)
(***************************************************************************)
Digits == {"0", "1", "2", "3", "4", "5", "6", "7", "8", "9"}

\* sep in s
Contains(s, sep) == \E i \in 1..Len(s) : s[i] = sep

RECURSIVE split(_, _)
\* str.split(sep): the pieces between the separators, one more than separators
split(s, sep) ==
  IF ~Contains(s, sep) THEN <<s>>
  ELSE LET i == CHOOSE k \in 1..Len(s) :
                  s[k] = sep /\ \A j \in 1..(k - 1) : s[j] # sep
       IN  <<SubSeq(s, 1, i - 1)>> \o split(SubSeq(s, i + 1, Len(s)), sep)

\* str.isnumeric: not empty and nothing but digits
isnumeric(s) == Len(s) > 0 /\ \A i \in 1..Len(s) : s[i] \in Digits

DigitValue(c) ==
  CASE c = "0" -> 0 [] c = "1" -> 1 [] c = "2" -> 2 [] c = "3" -> 3 [] c = "4" -> 4
    [] c = "5" -> 5 [] c = "6" -> 6 [] c = "7" -> 7 [] c = "8" -> 8 [] c = "9" -> 9

RECURSIVE float(_)
\* float(s) for a string of digits
float(s) ==
  IF Len(s) = 0 THEN 0
  ELSE 10 * float(SubSeq(s, 1, Len(s) - 1)) + DigitValue(s[Len(s)])

\* the strings over an alphabet up to a length
Strings(alphabet, n) == UNION { [1..k -> alphabet] : k \in 0..n }

(***************************************************************************)
(* Point2D factories                                                       *)
(***************************************************************************)

\* from_str testing the tokens before the separator
Point2D_from_str_tokens_first(position) ==
  LET position_list == split(position, ",")
  IN  IF ~isnumeric(position_list[1]) THEN Raise("InvalidConstructor")
      ELSE IF ~Contains(position, ",") THEN Raise("FormatError")
      ELSE IF ~isnumeric(position_list[2]) THEN Raise("InvalidConstructor")
      ELSE Construct("Point2D", Point(float(position_list[1]), float(position_list[2])))

\* _Point2DConstructor.from_str
Point2D_from_str(position) ==
  IF ~Contains(position, ",") THEN Raise("FormatError")
  ELSE LET position_list == split(position, ",")
       IN  IF ~isnumeric(position_list[1]) THEN Raise("InvalidConstructor")
           ELSE IF ~isnumeric(position_list[2]) THEN Raise("InvalidConstructor")
           ELSE Construct("Point2D",
                          Point(float(position_list[1]), float(position_list[2])))

(***************************************************************************)
(* LineSegment2D: the constructor and the factories                        *)
(***************************************************************************)

\* LineSegment2D(start_point, end_point)
LineSegment2D_new(start_point, end_point) ==
  Construct("LineSegment2D", Segment(start_point, end_point))

\* _LineSegment2DConstructor.from_tuple, called on the class cls
from_tuple(cls, pts) == Construct(cls, Segment(pts[1], pts[2]))

\* _LineSegment2DConstructor.from_list, called on the class cls
from_list(cls, pts) ==
  IF Point2D_eq(pts[1], pts[2]) THEN Raise("InvalidConstructor")
  ELSE Construct(cls, Segment(pts[1], pts[2]))

\* _LineSegment2DConstructor.from_dict, called on the class cls; the dict is
\* a function from its keys to points. The message of the first raise reads
\* list(points)[0], which fails on an empty dict.
from_dict(cls, pts) ==
  IF "start_point" \notin DOMAIN pts
    THEN (IF DOMAIN pts = {} THEN Raise("IndexError") ELSE Raise("InvalidConstructor"))
  ELSE IF "end-point" \notin DOMAIN pts THEN Raise("InvalidConstructor")
  ELSE IF "start-point" \notin DOMAIN pts THEN Raise("KeyError")
  ELSE IF Point2D_eq(pts["start-point"], pts["end-point"])
    THEN Raise("InvalidConstructor")
  ELSE Construct(cls, Segment(pts["start-point"], pts["end-point"]))

\* list[-1]
Last(l) == l[Len(l)]

\* _LineSegment2DConstructor.from_str, called on the class cls
LineSegment2D_from_str(cls, pts) ==
  LET points_list         == split(pts, ",")
      length              == Len(points_list)
      first_point         == points_list[1]
      first_point_values  == split(first_point, ":")
      second_point        == points_list[2]
      second_point_values == split(second_point, ":")
      start_point         == Construct("Point2D",
                               Point(float(first_point_values[1]),
                                     float(Last(first_point_values))))
      end_point           == Construct("Point2D",
                               Point(float(second_point_values[1]),
                                     float(Last(second_point_values))))
  IN  IF ~Contains(pts, ",") THEN Raise("FormatError")
      ELSE IF length # 2 THEN Raise("InvalidConstructor")
      ELSE IF ~Contains(first_point, ":") THEN Raise("FormatError")
      ELSE IF ~isnumeric(first_point_values[1]) THEN Raise("InvalidConstructor")
      ELSE IF ~isnumeric(Last(first_point_values)) THEN Raise("InvalidConstructor")
      ELSE IF ~Contains(second_point, ":") THEN Raise("FormatError")
      ELSE IF ~isnumeric(second_point_values[1]) THEN Raise("InvalidConstructor")
      ELSE IF ~isnumeric(Last(second_point_values)) THEN Raise("InvalidConstructor")
      ELSE IF start_point.kind # "ok" THEN start_point
      ELSE IF end_point.kind # "ok" THEN end_point
      ELSE IF Point2D_eq(start_point.value, end_point.value)
        THEN Raise("InvalidConstructor")
      ELSE Construct(cls, Segment(start_point.value, end_point.value))

(***************************************************************************)
(* Numbers of the vector arithmetic: fractions n/d in lowest terms, d > 0  *)
(***************************************************************************)
Abs(i) == IF i < 0 THEN 0 - i ELSE i

RECURSIVE GCD(_, _)
GCD(a, b) == IF b = 0 THEN a ELSE GCD(b, a % b)

\* n/d in lowest terms with a positive denominator (d # 0)
Frac(n, d) ==
  LET g == GCD(Abs(n), Abs(d))
  IN  [n |-> (IF d < 0 THEN 0 - n ELSE n) \div g, d |-> Abs(d) \div g]

Num(i) == [n |-> i, d |-> 1]

FracAdd(a, b) == Frac(a.n * b.d + b.n * a.d, a.d * b.d)
FracSub(a, b) == Frac(a.n * b.d - b.n * a.d, a.d * b.d)
FracMul(a, b) == Frac(a.n * b.n, a.d * b.d)
FracDiv(a, b) == Frac(a.n * b.d, a.d * b.n)

(***************************************************************************)
(* Vector2D: vector.py and two_dimensional_vector.py                       *)
(* A vector is [x, y]; a scalar is [cls, val] with the class of the Python *)
(* number (int or float) and its value.                                    *)
(***************************************************************************)
Vector(vx, vy) == [x |-> vx, y |-> vy]

\* Vector2D(x, y), the same in both files
Vector2D_new(vx, vy) == Construct("Vector2D", Vector(vx, vy))

\* vector.py: Vector2D.__add__
vector_add(self, other) ==
  Vector2D_new(FracAdd(self.x, other.x), FracAdd(self.y, other.y))

\* vector.py: Vector2D.__sub__
vector_sub(self, other) ==
  Vector2D_new(FracSub(self.x, other.x), FracSub(self.y, other.y))

\* vector.py: Vector2D.__mul__
vector_mul(self, scalar) ==
  Vector2D_new(FracMul(self.x, scalar.val), FracMul(self.y, scalar.val))

\* vector.py: Vector2D.__truediv__
vector_truediv(self, scalar) ==
  IF ~Truthy(scalar.val) THEN Raise("ValueError")
  ELSE Vector2D_new(FracDiv(self.x, scalar.val), FracDiv(self.y, scalar.val))

\* two_dimensional_vector.py: Vector2D.__add__ (the operand is a Vector2D)
two_dimensional_vector_add(self, addend) ==
  LET sum_of_x_componants == FracAdd(self.x, addend.x)
      sum_of_y_componants == FracAdd(self.y, addend.y)
  IN  Vector2D_new(sum_of_x_componants, sum_of_y_componants)

\* two_dimensional_vector.py: Vector2D.__sub__ (the operand is a Vector2D)
two_dimensional_vector_sub(self, subtrahend) ==
  LET sum_of_x_componants == FracAdd(self.x, subtrahend.x)
      sum_of_y_componants == FracAdd(self.y, subtrahend.y)
  IN  Vector2D_new(sum_of_x_componants, sum_of_y_componants)

\* two_dimensional_vector.py: Vector2D.__mul__
two_dimensional_vector_mul(self, scalar) ==
  IF scalar.cls # "float" THEN Raise("NotImplementedError")
  ELSE LET prod_of_x_componants == FracMul(self.x, scalar.val)
           prod_of_y_componants == FracMul(self.y, scalar.val)
       IN  Vector2D_new(prod_of_x_componants, prod_of_y_componants)

\* two_dimensional_vector.py: Vector2D.__truediv__
two_dimensional_vector_truediv(self, scalar) ==
  IF scalar.cls # "float" THEN Raise("NotImplementedError")
  ELSE IF scalar.val.n = 0 THEN Raise("ZeroDivisionError")
  ELSE LET div_of_x_componants == FracDiv(self.x, scalar.val)
           div_of_y_componants == FracDiv(self.y, scalar.val)
       IN  Vector2D_new(div_of_x_componants, div_of_y_componants)

(***************************************************************************)
(* Spec: the object graph                                                  *)
(*                                                                         *)
(* points[i] is the Point2D object with identity i. A segment stores the   *)
(* two objects it was given, not copies: its fields are point identities.  *)
(* The actions that create objects model the field assignments of the      *)
(* generated __init__ and the check of __post_init__; what the chain of    *)
(* __post_init__ calls does after that is modelled by Construct above.     *)
(***************************************************************************)
HeapCoord == (0 - HeapMax)..HeapMax

InRange(pts) == \A i \in DOMAIN pts : pts[i].x \in HeapCoord /\ pts[i].y \in HeapCoord

Op(name, s, tx, ty) == [op |-> name, seg |-> s, dx |-> tx, dy |-> ty]

\* Point2D.mirror_x_axis on the object with identity i
mirror_x_axis(pts, i) == [pts EXCEPT ![i].x = @ * (0 - 1)]

\* Point2D.mirror_y_axis on the object with identity i
mirror_y_axis(pts, i) == [pts EXCEPT ![i].y = @ * (0 - 1)]

\* translate_x with the first assignment only
translate_x_start_only(pts, seg, translation) ==
  [pts EXCEPT ![seg.start_point].x = @ + translation]

\* LineSegment2D.translate_x: the heap after the two assignments
translate_x(pts, seg, translation) ==
  LET moved == [pts EXCEPT ![seg.start_point].x = @ + translation]
  IN  [moved EXCEPT ![seg.end_point].x = @ + translation]

\* LineSegment2D.translate_y: the heap after the two assignments
translate_y(pts, seg, translation) ==
  LET moved == [pts EXCEPT ![seg.start_point].y = @ + translation]
  IN  [moved EXCEPT ![seg.end_point].y = @ + translation]

\* LineSegment2D.translate
translate(pts, seg, x_translation, y_translation) ==
  translate_y(translate_x(pts, seg, x_translation), seg, y_translation)

\* LineSegment2D.mirror_x
mirror_x(pts, seg) == mirror_x_axis(mirror_x_axis(pts, seg.start_point), seg.end_point)

\* LineSegment2D.mirror_y
mirror_y(pts, seg) == mirror_y_axis(mirror_y_axis(pts, seg.start_point), seg.end_point)

\* Point2D(x, y): a new object
NewPoint ==
  /\ Len(points) < MaxPoints
  /\ \E px \in HeapCoord, py \in HeapCoord :
       points' = Append(points, Point(px, py))
  /\ last' = Op("Point2D", 0, 0, 0)
  /\ UNCHANGED <<segments, call>>

\* LineSegment2D(a, b) on two existing objects: refused when they are equal
NewSegment ==
  /\ Len(segments) < MaxSegments
  /\ \E a \in DOMAIN points, b \in DOMAIN points :
       /\ PostInitCheck("LineSegment2D", Segment(points[a], points[b])) = "pass"
       /\ segments' = Append(segments, Segment(a, b))
  /\ last' = Op("LineSegment2D", Len(segments) + 1, 0, 0)
  /\ UNCHANGED <<points, call>>

\* a mutator of segment s that leaves the heap new_points
Mutate(name, s, tx, ty, new_points) ==
  /\ InRange(new_points)
  /\ points' = new_points
  /\ last' = Op(name, s, tx, ty)
  /\ UNCHANGED <<segments, call>>

Translations == {0 - 1, 1}

TranslateX ==
  \E s \in DOMAIN segments, t \in Translations :
    Mutate("translate_x", s, t, 0, translate_x(points, segments[s], t))

TranslateY ==
  \E s \in DOMAIN segments, t \in Translations :
    Mutate("translate_y", s, 0, t, translate_y(points, segments[s], t))

Translate ==
  \E s \in DOMAIN segments, tx \in Translations, ty \in Translations :
    Mutate("translate", s, tx, ty, translate(points, segments[s], tx, ty))

MirrorX ==
  \E s \in DOMAIN segments :
    Mutate("mirror_x", s, 0, 0, mirror_x(points, segments[s]))

MirrorY ==
  \E s \in DOMAIN segments :
    Mutate("mirror_y", s, 0, 0, mirror_y(points, segments[s]))

Init ==
  /\ points = <<>>
  /\ segments = <<>>
  /\ last = Op("none", 0, 0, 0)
  /\ call = [fn |-> "none", args |-> <<>>, done |-> TRUE, ret |-> "none"]

Next ==
  \/ NewPoint
  \/ NewSegment
  \/ TranslateX
  \/ TranslateY
  \/ Translate
  \/ MirrorX
  \/ MirrorY

Spec == Init /\ [][Next]_vars

Mutators == {"translate_x", "translate_y", "translate", "mirror_x", "mirror_y"}

\* the coordinates of the two endpoints of segment s in a heap
Endpoints(pts, s) == <<pts[segments[s].start_point], pts[segments[s].end_point]>>

(***************************************************************************)
(* Conversions to strings and dicts, and the factories that read them      *)
(*                                                                         *)
(* A dict is a function from its keys; a string is a sequence of           *)
(* one-character strings.                                                  *)
(***************************************************************************)
\* an outcome that is a plain value
Value(v) == [kind |-> "ok", value |-> v]

RECURSIVE digits(_)
\* the decimal digits of a natural number
digits(n) ==
  LET digit == <<"0", "1", "2", "3", "4", "5", "6", "7", "8", "9">>
  IN  IF n < 10 THEN <<digit[n + 1]>> ELSE digits(n \div 10) \o <<digit[(n % 10) + 1]>>

\* the text an f-string puts for {n}, n a whole number
str(n) == IF n < 0 THEN <<"-">> \o digits(0 - n) ELSE digits(n)

\* _Point2DConverter.to_dict
Point2D_to_dict(self) == ("x" :> self.x) @@ ("y" :> self.y)

\* _Point2DConstructor.from_dict
Point2D_from_dict(position) ==
  IF "x-position" \notin DOMAIN position THEN Raise("InvalidConstructor")
  ELSE IF "y-position" \notin DOMAIN position THEN Raise("InvalidConstructor")
  ELSE Construct("Point2D", Point(position["x-position"], position["y-position"]))

\* _Vector2DConverter.to_str: "x: {x}, y: {y}" (components are whole numbers)
Vector2D_to_str(self) ==
  <<"x", ":", " ">> \o str(self.x.n) \o <<",", " ", "y", ":", " ">> \o str(self.y.n)

\* _Vector2DConverter.to_dict
Vector2D_to_dict(self) == ("x-component" :> self.x) @@ ("y-component" :> self.y)

\* from_str reporting a wrong part count as a format error
Vector2D_from_str_count_format(componants) ==
  IF ~Contains(componants, ",") THEN Raise("FormatError")
  ELSE LET componants_list == split(componants, ",")
           length          == Len(componants_list)
       IN  IF length # 2 THEN Raise("FormatError")
           ELSE IF ~isnumeric(componants_list[1]) THEN Raise("InvalidConstructor")
           ELSE IF ~isnumeric(componants_list[2]) THEN Raise("InvalidConstructor")
           ELSE Vector2D_new(Num(float(componants_list[1])),
                             Num(float(componants_list[2])))

\* _Vector2DConstructor.from_str
Vector2D_from_str(componants) ==
  IF ~Contains(componants, ",") THEN Raise("FormatError")
  ELSE LET componants_list == split(componants, ",")
           length          == Len(componants_list)
       IN  IF length # 2 THEN Raise("InvalidConstructor")
           ELSE IF ~isnumeric(componants_list[1]) THEN Raise("InvalidConstructor")
           ELSE IF ~isnumeric(componants_list[2]) THEN Raise("InvalidConstructor")
           ELSE Vector2D_new(Num(float(componants_list[1])),
                             Num(float(componants_list[2])))

\* _Vector2DConstructor.from_dict
Vector2D_from_dict(componants) ==
  IF "x-componant" \notin DOMAIN componants THEN Raise("InvalidConstructor")
  ELSE IF "y-componant" \notin DOMAIN componants THEN Raise("InvalidConstructor")
  ELSE Vector2D_new(componants["x-componant"], componants["y-componant"])

\* _LineSegment2DConverter.to_str: a line break and six spaces, the text
\* "Start Point(x, y), End-Point(x, y)", a line break and twelve spaces
LineSegment2D_to_str(self) ==
  LET Spaces(n) == [i \in 1..n |-> " "]
  IN
  <<"\n">> \o Spaces(6)
  \o <<"S", "t", "a", "r", "t", " ", "P", "o", "i", "n", "t", "(">>
  \o str(self.start_point.x) \o <<",", " ">> \o str(self.start_point.y)
  \o <<")", ",", " ", "E", "n", "d", "-", "P", "o", "i", "n", "t", "(">>
  \o str(self.end_point.x) \o <<",", " ">> \o str(self.end_point.y)
  \o <<")", "\n">> \o Spaces(12)

\* _LineSegment2DConverter.to_dict
LineSegment2D_to_dict(self) ==
  ("Start Point" :> self.start_point) @@ ("End Point" :> self.end_point)

(***************************************************************************)
(* Line2D (line.py). The classes are attrs classes: the __init__ that      *)
(* @define generates stores the fields and would call                      *)
(* __attrs_post_init__, which no class of the hierarchy defines; the       *)
(* __post_init__ methods are never called.                                 *)
(***************************************************************************)
Line(a, b) == [point_a |-> a, point_b |-> b]

\* cls(point_a, point_b) for a class made by @define
attrs_init(cls, fields) == Object(cls, fields)

\* obj.name: the attribute of an object, AttributeError when it has none
getattr(obj, name) ==
  IF name \in DOMAIN obj THEN Value(obj[name]) ELSE Raise("AttributeError")

\* an instance of Undefined: written as the pair 0/0, which no fraction is
UNDEFINED == [n |-> 0, d |-> 0]

\* the expression Undefined.UNDEFINED: an attribute of the class, which
\* defines the methods listed here and nothing else
Undefined_UNDEFINED ==
  LET UndefinedAttributes ==
        {"__float__", "__add__", "__sub__", "__mul__", "__truediv__", "__radd__",
         "__rsub__", "__rmul__", "__rtruediv__", "__eq__", "__ne__"}
  IN  IF "UNDEFINED" \in UndefinedAttributes THEN Value(UNDEFINED)
      ELSE Raise("AttributeError")

\* a == b on two slopes: Undefined.__eq__ answers False when either is an
\* Undefined
Eq(a, b) == IF a = UNDEFINED \/ b = UNDEFINED THEN FALSE ELSE a = b

\* _Line2DConverter.to_string
Line2D_to_string(self) ==
  <<"P", "o", "i", "n", "t", "-", "A", " ", "X", ":", " ">> \o str(self.point_a.x)
  \o <<",", " ", "P", "o", "i", "n", "t", "-", "A", " ", "Y", ":", " ">>
  \o str(self.point_a.y)
  \o <<"\n", "P", "o", "i", "n", "t", "-", "B", " ", "X", ":", " ">>
  \o str(self.point_b.x)
  \o <<",", " ", "P", "o", "i", "n", "t", "-", "B", " ", "Y", ":", " ">>
  \o str(self.point_b.y)

\* _Line2DConverter.to_dict
Line2D_to_dict(self) == ("Point-A" :> self.point_a) @@ ("Point-B" :> self.point_b)

\* _Line2DProperties.rise
Line2D_rise(self) == Value(self.point_a.y - self.point_b.y)

\* _Line2DProperties.run
Line2D_run(self) ==
  LET a == getattr(self.point_a, "x_position")
      b == getattr(self.point_b, "x_position")
  IN  IF a.kind # "ok" THEN a
      ELSE IF b.kind # "ok" THEN b
      ELSE Value(a.value - b.value)

\* _Line2DProperties.slope: a fraction, or what Undefined.UNDEFINED gives
Line2D_slope(self) ==
  LET run  == Line2D_run(self)
      rise == Line2D_rise(self)
  IN  IF run.kind # "ok" THEN run
      ELSE IF run.value = 0 THEN Undefined_UNDEFINED
      ELSE IF rise.kind # "ok" THEN rise
      ELSE Value(FracDiv(Num(rise.value), Num(run.value)))

\* _Line2DProperties.x_intercept
Line2D_x_intercept(self) ==
  IF self.point_a.y = 0 THEN Value(self.point_a)
  ELSE IF self.point_b.y = 0 THEN Value(self.point_b)
  ELSE LET slope == Line2D_slope(self)
           x_pos == getattr(self.point_a, "x_position")
       IN  IF slope.kind # "ok" THEN slope
           ELSE IF Undefined_UNDEFINED.kind # "ok" THEN Undefined_UNDEFINED
           ELSE IF slope.value = UNDEFINED
             THEN (IF x_pos.kind # "ok" THEN x_pos
                   ELSE Construct("Point2D", Point(Num(x_pos.value), Num(0))))
           ELSE IF slope.value.n = 0 THEN Raise("ZeroDivisionError")
           ELSE Construct("Point2D",
                  Point(FracSub(Num(self.point_b.x),
                                FracDiv(Num(self.point_b.y), slope.value)),
                        Num(0)))

\* _Line2DProperties.y_intercept
Line2D_y_intercept(self) ==
  LET a_pos == getattr(self.point_a, "x_position")
      b_pos == getattr(self.point_b, "x_position")
      slope == Line2D_slope(self)
  IN  IF a_pos.kind # "ok" THEN a_pos
      ELSE IF a_pos.value = 0 THEN Value(self.point_a)
      ELSE IF b_pos.kind # "ok" THEN b_pos
      ELSE IF b_pos.value = 0 THEN Value(self.point_b)
      ELSE IF slope.kind # "ok" THEN slope
      ELSE IF Undefined_UNDEFINED.kind # "ok" THEN Undefined_UNDEFINED
      ELSE IF slope.value = UNDEFINED
        THEN Construct("Point2D", Point(Num(a_pos.value), Num(0)))
      ELSE IF slope.value.n = 0 THEN Raise("ZeroDivisionError")
      ELSE Construct("Point2D",
             Point(Num(0),
                   FracSub(Num(self.point_b.y),
                           FracDiv(Num(self.point_b.x), slope.value))))

\* from_str looking for the ':' of both points before it reads a number
Line2D_from_str_colons_first(cls, pts) ==
  LET points_list         == split(pts, ",")
      length              == Len(points_list)
      first_point         == points_list[1]
      first_point_values  == split(first_point, ":")
      second_point        == points_list[2]
      second_point_values == split(second_point, ":")
      start_point         == Construct("Point2D",
                               Point(float(first_point_values[1]),
                                     float(Last(first_point_values))))
      end_point           == Construct("Point2D",
                               Point(float(second_point_values[1]),
                                     float(Last(second_point_values))))
  IN  IF ~Contains(pts, ",") THEN Raise("FormatError")
      ELSE IF length # 2 THEN Raise("InvalidConstructor")
      ELSE IF ~Contains(first_point, ":") THEN Raise("FormatError")
      ELSE IF ~Contains(second_point, ":") THEN Raise("FormatError")
      ELSE IF ~isnumeric(first_point_values[1]) THEN Raise("InvalidConstructor")
      ELSE IF ~isnumeric(Last(first_point_values)) THEN Raise("InvalidConstructor")
      ELSE IF ~isnumeric(second_point_values[1]) THEN Raise("InvalidConstructor")
      ELSE IF ~isnumeric(Last(second_point_values)) THEN Raise("InvalidConstructor")
      ELSE IF start_point.kind # "ok" THEN start_point
      ELSE IF end_point.kind # "ok" THEN end_point
      ELSE attrs_init(cls, Line(start_point.value, end_point.value))

\* _Line2DConstructor.from_str, called on the class cls
Line2D_from_str(cls, pts) ==
  LET points_list         == split(pts, ",")
      length              == Len(points_list)
      first_point         == points_list[1]
      first_point_values  == split(first_point, ":")
      second_point        == points_list[2]
      second_point_values == split(second_point, ":")
      start_point         == Construct("Point2D",
                               Point(float(first_point_values[1]),
                                     float(Last(first_point_values))))
      end_point           == Construct("Point2D",
                               Point(float(second_point_values[1]),
                                     float(Last(second_point_values))))
  IN  IF ~Contains(pts, ",") THEN Raise("FormatError")
      ELSE IF length # 2 THEN Raise("InvalidConstructor")
      ELSE IF ~Contains(first_point, ":") THEN Raise("FormatError")
      ELSE IF ~isnumeric(first_point_values[1]) THEN Raise("InvalidConstructor")
      ELSE IF ~isnumeric(Last(first_point_values)) THEN Raise("InvalidConstructor")
      ELSE IF ~Contains(second_point, ":") THEN Raise("FormatError")
      ELSE IF ~isnumeric(second_point_values[1]) THEN Raise("InvalidConstructor")
      ELSE IF ~isnumeric(Last(second_point_values)) THEN Raise("InvalidConstructor")
      ELSE IF start_point.kind # "ok" THEN start_point
      ELSE IF end_point.kind # "ok" THEN end_point
      ELSE attrs_init(cls, Line(start_point.value, end_point.value))

\* _Line2DConstructor.from_dict, called on the class cls
Line2D_from_dict(cls, pts) ==
  IF "Point-A" \notin DOMAIN pts THEN Raise("InvalidConstructor")
  ELSE IF "Point-B" \notin DOMAIN pts THEN Raise("InvalidConstructor")
  ELSE IF Point2D_eq(pts["Point-A"], pts["Point-B"]) THEN Raise("InvalidConstructor")
  ELSE attrs_init(cls, Line(pts["Point-A"], pts["Point-B"]))

\* _Line2DConstructor.from_tuple, called on the class cls
Line2D_from_tuple(cls, pts) ==
  IF Point2D_eq(pts[1], pts[2]) THEN Raise("InvalidConstructor")
  ELSE attrs_init(cls, Line(pts[1], pts[2]))

\* Line2D.is_parallel; other is an object with its class
Line2D_is_parallel(self, other) ==
  LET slope_a == Line2D_slope(self)
      slope_b == Line2D_slope(other.value)
  IN  IF other.cls # "Line2D" THEN Raise("NotImplementedError")
      ELSE IF slope_a.kind # "ok" THEN slope_a
      ELSE IF slope_b.kind # "ok" THEN slope_b
      ELSE Value(Eq(slope_a.value, slope_b.value))

\* Line2D.is_perpendicular; other is an object with its class. The tests
\* "is Undefined" compare a slope with the class Undefined and are false for
\* every slope; float() of an Undefined is refused, as __float__ returns an
\* int; -1 / 0.0 divides by zero.
Line2D_is_perpendicular(self, other) ==
  LET slope_a == Line2D_slope(self)
      slope_b == Line2D_slope(other.value)
  IN  IF other.cls # "Line2D" THEN Raise("NotImplementedError")
      ELSE IF slope_a.kind # "ok" THEN slope_a
      ELSE IF slope_b.kind # "ok" THEN slope_b
      ELSE IF slope_b.value = UNDEFINED THEN Raise("TypeError")
      ELSE IF slope_b.value.n = 0 THEN Raise("ZeroDivisionError")
      ELSE Value(Eq(slope_a.value, FracDiv(Num(0 - 1), slope_b.value)))

(***************************************************************************)
(* LineSegment2D: run, rise and length                                     *)
(***************************************************************************)
\* round(n, ndigits) of a whole number: n itself unless ndigits is negative
round(n, ndigits) ==
  IF ndigits >= 0 THEN n
  ELSE LET unit == 10 ^ (0 - ndigits)
           r    == n % unit
       IN  IF 2 * r > unit \/ (2 * r = unit /\ ((n - r) \div unit) % 2 = 1)
             THEN n - r + unit ELSE n - r

\* sqrt(q): the non-negative real whose square is q, kept by that square
sqrt(q) == [radicand |-> q]

\* _LineSegment2DProperties.run
LineSegment2D_run(self, precision) ==
  round((self.start_point.x - self.end_point.x) ^ 2, precision)

\* _LineSegment2DProperties.rise
LineSegment2D_rise(self, prescision) ==
  round((self.start_point.y - self.end_point.y) ^ 2, prescision)

\* _LineSegment2DProperties.length
LineSegment2D_length(self, precision) ==
  sqrt(LineSegment2D_run(self, precision) ^ 2 + LineSegment2D_rise(self, precision) ^ 2)

(***************************************************************************)
(* Vector2D.direction, Point2D comparison, distance and rotation, and the  *)
(* slope queries of a segment                                              *)
(***************************************************************************)
\* _Vector2DProperties.direction (the same text in vector.py and in
\* two_dimensional_vector.py). The value is degrees + atan(ratio), written
\* as the pair of the two; atan(0) = 0. The chain of tests assigns a fixed
\* value that the next statement overwrites with atan(x / y).
direction(self) ==
  LET fixed == IF ~Truthy(self.x) /\ self.y.n < 0 THEN 90
               ELSE IF ~Truthy(self.x) /\ self.y.n > 0 THEN 0 - 90
               ELSE IF ~Truthy(self.y) /\ self.x.n < 0 THEN 90
               ELSE IF ~Truthy(self.y) /\ self.x.n > 0 THEN 0 - 90
               ELSE 0
      vector_quadrant ==
        IF ~Truthy(self.x) \/ ~Truthy(self.y) THEN NONE
        ELSE IF self.x.n > 0 THEN (IF self.y.n > 0 THEN ONE ELSE FOUR)
        ELSE (IF self.y.n > 0 THEN TWO ELSE THREE)
  IN  IF ~Truthy(self.y) THEN Raise("ZeroDivisionError")
      ELSE Value([degrees |-> (IF vector_quadrant \in {TWO, THREE} THEN 180
                               ELSE IF vector_quadrant = FOUR THEN 360 ELSE 0),
                  atan    |-> FracDiv(self.x, self.y)])

\* Point2D.__ne__ (both operands are Point2D)
Point2D_ne(self, other) == (~(self.x = other.x)) /\ self.y = other.y

\* Point2D.get_distance_between_points
get_distance_between_points(self, other) ==
  LET get_horizontal_distance == self.y - other.y
      get_vertical_distance   == self.x - other.x
  IN  sqrt(get_horizontal_distance ^ 2 + get_vertical_distance ^ 2)

\* LineSegment2D.is_between: sqrt(a) + sqrt(b) == sqrt(c) holds exactly when
\* c - a - b >= 0 and 4ab = (c - a - b)^2
is_between(self, point) ==
  LET a == get_distance_between_points(point, self.start_point).radicand
      b == get_distance_between_points(point, self.end_point).radicand
      c == LineSegment2D_length(self, 5).radicand
  IN  c - a - b >= 0 /\ 4 * a * b = (c - a - b) ^ 2

\* Point2D.rotate_about_origin with angle_of_rot = 0: either unit leaves the
\* angle 0, cos(0) = 1 and sin(0) = 0. The second assignment reads the x the
\* first one has stored.
rotate_about_origin(self, angle_unit, rot_direction) ==
  LET cos_theta == 1
      sin_theta == 0
      cw_x  == 0 - (self.x * cos_theta + self.y * sin_theta)
      cw_y  == 0 - (cw_x * sin_theta + self.y * cos_theta)
      ccw_x == self.x * cos_theta - self.y * sin_theta
      ccw_y == ccw_x * sin_theta + self.y * cos_theta
  IN  IF rot_direction = CLOCKWISE THEN Point(cw_x, cw_y)
      ELSE IF rot_direction = COUNTERCLOCKWISE THEN Point(ccw_x, ccw_y)
      ELSE self

\* Point2D.rotate_point with angle_of_rot = 0
rotate_point(self, other, angle_unit, rot_direction) ==
  LET cos_theta == 1
      sin_theta == 0
      translated_x_position == self.x - other.x
      translated_y_position == self.y - other.y
  IN  IF rot_direction = CLOCKWISE
        THEN Point(translated_x_position * cos_theta + translated_y_position * sin_theta,
                   translated_y_position * sin_theta + translated_y_position * cos_theta)
      ELSE IF rot_direction = COUNTERCLOCKWISE
        THEN Point(translated_x_position * cos_theta - translated_y_position * sin_theta,
                   translated_y_position * sin_theta - translated_y_position * sin_theta)
      ELSE self

\* _LineSegment2DProperties.slope with its defaults ("Float", precision 3)
LineSegment2D_slope(self) ==
  IF LineSegment2D_run(self, 0) = 0 THEN Undefined_UNDEFINED
  ELSE Value(Frac(LineSegment2D_rise(self, 3), LineSegment2D_run(self, 3)))

\* LineSegment2D.is_parallel
LineSegment2D_is_parallel(self, line) ==
  LET slope_a == LineSegment2D_slope(self)
      slope_b == LineSegment2D_slope(line)
  IN  IF slope_a.kind # "ok" THEN slope_a
      ELSE IF slope_b.kind # "ok" THEN slope_b
      ELSE Value(Eq(slope_a.value, slope_b.value))

(***************************************************************************)
(* SpecCalls: the calls and their arguments                                *)
(***************************************************************************)
Pending(f, a) == [fn |-> f, args |-> a, done |-> FALSE, ret |-> "pending"]

OrientationCalls ==
  { Pending("get_orientation", <<p1, p2, p3>>) :
      p1 \in GridPoints, p2 \in GridPoints, p3 \in GridPoints }

QuadrantCalls == { Pending("quadrant", <<p>>) : p \in GridPoints }

IntersectsCalls ==
  { Pending("intersects", <<s, t>>) : s \in ValidSegments, t \in ValidSegments }

PointChars == {"1", "2", "a", ",", ";", "-", "."}

PointFromStrCalls ==
  { Pending("Point2D.from_str", <<s>>) : s \in Strings(PointChars, MaxPointStr) }

SegmentChars == {"1", "2", "a", ":", ","}

\* the classes a segment factory can be called on: the factories are class
\* methods of _LineSegment2DConstructor, which LineSegment2D does not inherit
FactoryClasses == {"_LineSegment2DConstructor"}

DictKeys   == {"start_point", "start-point", "end-point", "end_point"}
DictPoints == { Point(0, 0), Point(1, 0) }
Dicts      == UNION { [keys -> DictPoints] : keys \in SUBSET DictKeys }

SegmentConstructorCalls ==
  { Pending("LineSegment2D", <<p, q>>) : p \in SegPoints, q \in SegPoints }

SegmentFactoryCalls ==
  { Pending(f, <<cls, <<p, q>>>>) :
      f \in {"from_tuple", "from_list"}, cls \in FactoryClasses,
      p \in SegPoints, q \in SegPoints }
  \cup { Pending("from_dict", <<cls, d>>) : cls \in FactoryClasses, d \in Dicts }

SegmentFromStrCalls ==
  { Pending("LineSegment2D.from_str", <<cls, s>>) :
      cls \in FactoryClasses, s \in Strings(SegmentChars, MaxSegmentStr) }

VecRange == (0 - VecMax)..VecMax

\* the vectors that exist: not both components zero
Vectors ==
  { Vector(Num(vx), Num(vy)) : vx \in VecRange, vy \in VecRange } \
  { Vector(Num(0), Num(0)) }

Scalars == { [cls |-> c, val |-> Num(k)] : c \in {"int", "float"}, k \in VecRange }

VectorModules == {"vector", "two_dimensional_vector"}

VectorConstructorCalls ==
  { Pending("Vector2D", <<Num(vx), Num(vy)>>) : vx \in VecRange, vy \in VecRange }

VectorVectorCalls ==
  { Pending(op, <<m, v, w>>) :
      op \in {"__add__", "__sub__"}, m \in VectorModules, v \in Vectors, w \in Vectors }

VectorScalarCalls ==
  { Pending(op, <<m, v, k>>) :
      op \in {"__mul__", "__truediv__"}, m \in VectorModules, v \in Vectors,
      k \in Scalars }

\* the values whose conversions are fed back to the factories
Lines == { Line(p, q) : p \in SegPoints, q \in SegPoints } \ { Line(p, p) : p \in SegPoints }

RoundTripCalls ==
  { Pending("round_trip", <<"Point2D", "dict", t>>) : t \in GridPoints }
  \cup { Pending("round_trip", <<"Vector2D", form, t>>) :
           form \in {"str", "dict"}, t \in Vectors }
  \cup { Pending("round_trip", <<"LineSegment2D", form, t>>) :
           form \in {"str", "dict"}, t \in ValidSegments }
  \cup { Pending("round_trip", <<"Line2D", form, t>>) :
           form \in {"str", "dict"}, t \in Lines }

\* the classes a line factory is called on
LineFactoryClasses == {"_Line2DConstructor", "Line2D"}

LineFromStrCalls ==
  { Pending("Line2D.from_str", <<cls, s>>) :
      cls \in LineFactoryClasses, s \in Strings({"1", "2", ":", ","}, MaxSegmentStr) }

\* the calls of the other functions of a line; a dict has some of the keys
\* "Point-A" and "Point-B"
LineCalls ==
  { Pending("Line2D.from_tuple", <<cls, <<p, q>>>>) :
      cls \in LineFactoryClasses, p \in SegPoints, q \in SegPoints }
  \cup { Pending("Line2D.from_dict", <<cls, d>>) :
           cls \in LineFactoryClasses,
           d \in UNION { [keys -> DictPoints] : keys \in SUBSET {"Point-A", "Point-B"} } }
  \cup { Pending(f, <<l>>) :
           f \in {"Line2D.slope", "Line2D.x_intercept", "Line2D.y_intercept"},
           l \in Lines }
  \cup { Pending(f, <<l, Object(cls, k)>>) :
           f \in {"Line2D.is_parallel", "Line2D.is_perpendicular"},
           l \in Lines, cls \in LineFactoryClasses, k \in Lines }

SegmentMeasureCalls ==
  { Pending(f, <<s>>) :
      f \in {"LineSegment2D.run", "LineSegment2D.rise", "LineSegment2D.length"},
      s \in ValidSegments }

\* the calls of the mutators: a translate of the segment that holds the two
\* distinct Point2D objects of a heap, a mirror of the one object of a heap
MutatorCalls ==
  LET SegmentHeaps ==
        { <<p, q>> : p \in SegPoints, q \in SegPoints } \ { <<p, p>> : p \in SegPoints }
  IN  { Pending(f, <<pts, Segment(1, 2), d>>) :
          f \in {"translate_x", "translate_y"}, pts \in SegmentHeaps, d \in Coord }
      \cup { Pending("translate", <<pts, Segment(1, 2), dx, dy>>) :
               pts \in SegmentHeaps, dx \in Coord, dy \in Coord }
      \cup { Pending(f, <<(<<p>>), 1>>) :
               f \in {"mirror_x_axis", "mirror_y_axis"}, p \in GridPoints }

\* the calls on points and vectors: the constructor and != of Point2D, the
\* rotations by the angle 0, direction and from_str of Vector2D
PointAndVectorCalls ==
  { Pending("Point2D", <<px, py>>) : px \in Coord, py \in Coord }
  \cup { Pending("Point2D.__ne__", <<p, q>>) : p \in GridPoints, q \in GridPoints }
  \cup { Pending("rotate_about_origin", <<p, unit, d>>) :
           p \in GridPoints, unit \in {"DEG", "RAD"}, d \in Orientation }
  \cup { Pending("rotate_point", <<p, other, unit, d>>) :
           p \in GridPoints, other \in GridPoints, unit \in {"DEG", "RAD"},
           d \in Orientation }
  \cup { Pending("direction", <<m, v>>) : m \in VectorModules, v \in Vectors }
  \cup { Pending("Vector2D.from_str", <<s>>) :
           s \in Strings({"1", "a", ","}, MaxPointStr) }

\* the segments on three lines through the origin, long enough to lie apart
CollinearSegments ==
  { Segment(Point(a * d[1], a * d[2]), Point(b * d[1], b * d[2])) :
      a \in 0..LineMax, b \in 0..LineMax, d \in {<<1, 0>>, <<0, 1>>, <<1, 1>>} }
  \ { Segment(p, p) : p \in { Point(a, b) : a \in 0..LineMax, b \in 0..LineMax } }

\* the calls of is_between and is_parallel on valid segments, and of
\* intersects on the segments of the three lines
SegmentQueryCalls ==
  { Pending("is_between", <<s, p>>) : s \in ValidSegments, p \in SegPoints }
  \cup { Pending("intersects", <<s, t>>) :
           s \in CollinearSegments, t \in CollinearSegments }
  \cup { Pending("LineSegment2D.is_parallel", <<s, t>>) :
           s \in ValidSegments, t \in ValidSegments }

Returns(f, r) ==
  /\ call.fn = f
  /\ ~call.done
  /\ call' = [call EXCEPT !.done = TRUE, !.ret = r]
  /\ UNCHANGED <<points, segments, last>>

Call_get_orientation ==
  /\ call.fn = "get_orientation"
  /\ Returns("get_orientation",
             get_orientation(call.args[1], call.args[2], call.args[3]))

Call_quadrant ==
  /\ call.fn = "quadrant"
  /\ Returns("quadrant", quadrant(call.args[1]))

Call_intersects ==
  /\ call.fn = "intersects"
  /\ Returns("intersects", intersects(call.args[1], call.args[2]))

Call_Point2D_from_str ==
  /\ call.fn = "Point2D.from_str"
  /\ Returns("Point2D.from_str", Point2D_from_str(call.args[1]))

Call_LineSegment2D ==
  /\ call.fn = "LineSegment2D"
  /\ Returns("LineSegment2D", LineSegment2D_new(call.args[1], call.args[2]))

Call_from_tuple ==
  /\ call.fn = "from_tuple"
  /\ Returns("from_tuple", from_tuple(call.args[1], call.args[2]))

Call_from_list ==
  /\ call.fn = "from_list"
  /\ Returns("from_list", from_list(call.args[1], call.args[2]))

Call_from_dict ==
  /\ call.fn = "from_dict"
  /\ Returns("from_dict", from_dict(call.args[1], call.args[2]))

Call_LineSegment2D_from_str ==
  /\ call.fn = "LineSegment2D.from_str"
  /\ Returns("LineSegment2D.from_str",
             LineSegment2D_from_str(call.args[1], call.args[2]))

Call_Vector2D ==
  /\ call.fn = "Vector2D"
  /\ Returns("Vector2D", Vector2D_new(call.args[1], call.args[2]))

Call_vector_add ==
  /\ call.fn = "__add__" /\ call.args[1] = "vector"
  /\ Returns("__add__", vector_add(call.args[2], call.args[3]))

Call_vector_sub ==
  /\ call.fn = "__sub__" /\ call.args[1] = "vector"
  /\ Returns("__sub__", vector_sub(call.args[2], call.args[3]))

Call_vector_mul ==
  /\ call.fn = "__mul__" /\ call.args[1] = "vector"
  /\ Returns("__mul__", vector_mul(call.args[2], call.args[3]))

Call_vector_truediv ==
  /\ call.fn = "__truediv__" /\ call.args[1] = "vector"
  /\ Returns("__truediv__", vector_truediv(call.args[2], call.args[3]))

Call_two_dimensional_vector_add ==
  /\ call.fn = "__add__" /\ call.args[1] = "two_dimensional_vector"
  /\ Returns("__add__", two_dimensional_vector_add(call.args[2], call.args[3]))

Call_two_dimensional_vector_sub ==
  /\ call.fn = "__sub__" /\ call.args[1] = "two_dimensional_vector"
  /\ Returns("__sub__", two_dimensional_vector_sub(call.args[2], call.args[3]))

Call_two_dimensional_vector_mul ==
  /\ call.fn = "__mul__" /\ call.args[1] = "two_dimensional_vector"
  /\ Returns("__mul__", two_dimensional_vector_mul(call.args[2], call.args[3]))

Call_two_dimensional_vector_truediv ==
  /\ call.fn = "__truediv__" /\ call.args[1] = "two_dimensional_vector"
  /\ Returns("__truediv__", two_dimensional_vector_truediv(call.args[2], call.args[3]))

Call_Point2D_round_trip ==
  /\ call.fn = "round_trip" /\ call.args[1] = "Point2D"
  /\ Returns("round_trip", Point2D_from_dict(Point2D_to_dict(call.args[3])))

Call_Vector2D_round_trip ==
  /\ call.fn = "round_trip" /\ call.args[1] = "Vector2D"
  /\ Returns("round_trip",
             IF call.args[2] = "str"
               THEN Vector2D_from_str(Vector2D_to_str(call.args[3]))
               ELSE Vector2D_from_dict(Vector2D_to_dict(call.args[3])))

Call_LineSegment2D_round_trip ==
  /\ call.fn = "round_trip" /\ call.args[1] = "LineSegment2D"
  /\ Returns("round_trip",
             IF call.args[2] = "str"
               THEN LineSegment2D_from_str("_LineSegment2DConstructor",
                                           LineSegment2D_to_str(call.args[3]))
               ELSE from_dict("_LineSegment2DConstructor",
                              LineSegment2D_to_dict(call.args[3])))

Call_Line2D_round_trip ==
  /\ call.fn = "round_trip" /\ call.args[1] = "Line2D"
  /\ Returns("round_trip",
             IF call.args[2] = "str"
               THEN Line2D_from_str("Line2D", Line2D_to_string(call.args[3]))
               ELSE Line2D_from_dict("Line2D", Line2D_to_dict(call.args[3])))

Call_Line2D_from_str ==
  /\ call.fn = "Line2D.from_str"
  /\ Returns("Line2D.from_str", Line2D_from_str(call.args[1], call.args[2]))

Call_Line2D_from_dict ==
  /\ call.fn = "Line2D.from_dict"
  /\ Returns("Line2D.from_dict", Line2D_from_dict(call.args[1], call.args[2]))

Call_Line2D_from_tuple ==
  /\ call.fn = "Line2D.from_tuple"
  /\ Returns("Line2D.from_tuple", Line2D_from_tuple(call.args[1], call.args[2]))

Call_Line2D_slope ==
  /\ call.fn = "Line2D.slope"
  /\ Returns("Line2D.slope", Line2D_slope(call.args[1]))

Call_Line2D_x_intercept ==
  /\ call.fn = "Line2D.x_intercept"
  /\ Returns("Line2D.x_intercept", Line2D_x_intercept(call.args[1]))

Call_Line2D_y_intercept ==
  /\ call.fn = "Line2D.y_intercept"
  /\ Returns("Line2D.y_intercept", Line2D_y_intercept(call.args[1]))

Call_Line2D_is_parallel ==
  /\ call.fn = "Line2D.is_parallel"
  /\ Returns("Line2D.is_parallel", Line2D_is_parallel(call.args[1], call.args[2]))

Call_Line2D_is_perpendicular ==
  /\ call.fn = "Line2D.is_perpendicular"
  /\ Returns("Line2D.is_perpendicular",
             Line2D_is_perpendicular(call.args[1], call.args[2]))

\* run() and rise() with their default precision 0
Call_LineSegment2D_run ==
  /\ call.fn = "LineSegment2D.run"
  /\ Returns("LineSegment2D.run", LineSegment2D_run(call.args[1], 0))

Call_LineSegment2D_rise ==
  /\ call.fn = "LineSegment2D.rise"
  /\ Returns("LineSegment2D.rise", LineSegment2D_rise(call.args[1], 0))

\* length() with its default precision 5
Call_LineSegment2D_length ==
  /\ call.fn = "LineSegment2D.length"
  /\ Returns("LineSegment2D.length", LineSegment2D_length(call.args[1], 5))

\* the mutators called on a segment of a heap: the call leaves the heap
Call_translate_x ==
  /\ call.fn = "translate_x"
  /\ Returns("translate_x", translate_x(call.args[1], call.args[2], call.args[3]))

Call_translate_y ==
  /\ call.fn = "translate_y"
  /\ Returns("translate_y", translate_y(call.args[1], call.args[2], call.args[3]))

Call_translate ==
  /\ call.fn = "translate"
  /\ Returns("translate",
             translate(call.args[1], call.args[2], call.args[3], call.args[4]))

Call_mirror_x_axis ==
  /\ call.fn = "mirror_x_axis"
  /\ Returns("mirror_x_axis", mirror_x_axis(call.args[1], call.args[2]))

Call_mirror_y_axis ==
  /\ call.fn = "mirror_y_axis"
  /\ Returns("mirror_y_axis", mirror_y_axis(call.args[1], call.args[2]))

Call_Point2D ==
  /\ call.fn = "Point2D"
  /\ Returns("Point2D", Construct("Point2D", Point(call.args[1], call.args[2])))

Call_Point2D_ne ==
  /\ call.fn = "Point2D.__ne__"
  /\ Returns("Point2D.__ne__", Point2D_ne(call.args[1], call.args[2]))

\* the rotations leave the point they were called on
Call_rotate_about_origin ==
  /\ call.fn = "rotate_about_origin"
  /\ Returns("rotate_about_origin",
             rotate_about_origin(call.args[1], call.args[2], call.args[3]))

Call_rotate_point ==
  /\ call.fn = "rotate_point"
  /\ Returns("rotate_point",
             rotate_point(call.args[1], call.args[2], call.args[3], call.args[4]))

Call_direction ==
  /\ call.fn = "direction"
  /\ Returns("direction", direction(call.args[2]))

Call_Vector2D_from_str ==
  /\ call.fn = "Vector2D.from_str"
  /\ Returns("Vector2D.from_str", Vector2D_from_str(call.args[1]))

Call_is_between ==
  /\ call.fn = "is_between"
  /\ Returns("is_between", is_between(call.args[1], call.args[2]))

Call_LineSegment2D_is_parallel ==
  /\ call.fn = "LineSegment2D.is_parallel"
  /\ Returns("LineSegment2D.is_parallel",
             LineSegment2D_is_parallel(call.args[1], call.args[2]))

InitCalls ==
  /\ \/ call \in OrientationCalls
     \/ call \in QuadrantCalls
     \/ call \in IntersectsCalls
     \/ call \in PointFromStrCalls
     \/ call \in SegmentConstructorCalls
     \/ call \in SegmentFactoryCalls
     \/ call \in SegmentFromStrCalls
     \/ call \in VectorConstructorCalls
     \/ call \in VectorVectorCalls
     \/ call \in VectorScalarCalls
     \/ call \in RoundTripCalls
     \/ call \in LineFromStrCalls
     \/ call \in LineCalls
     \/ call \in SegmentMeasureCalls
     \/ call \in MutatorCalls
     \/ call \in PointAndVectorCalls
     \/ call \in SegmentQueryCalls
  /\ points = <<>>
  /\ segments = <<>>
  /\ last = [op |-> "none", seg |-> 0, dx |-> 0, dy |-> 0]

NextCalls ==
  \/ Call_get_orientation
  \/ Call_quadrant
  \/ Call_intersects
  \/ Call_Point2D_from_str
  \/ Call_LineSegment2D
  \/ Call_from_tuple
  \/ Call_from_list
  \/ Call_from_dict
  \/ Call_LineSegment2D_from_str
  \/ Call_Vector2D
  \/ Call_vector_add
  \/ Call_vector_sub
  \/ Call_vector_mul
  \/ Call_vector_truediv
  \/ Call_two_dimensional_vector_add
  \/ Call_two_dimensional_vector_sub
  \/ Call_two_dimensional_vector_mul
  \/ Call_two_dimensional_vector_truediv
  \/ Call_Point2D_round_trip
  \/ Call_Vector2D_round_trip
  \/ Call_LineSegment2D_round_trip
  \/ Call_Line2D_round_trip
  \/ Call_Line2D_from_str
  \/ Call_Line2D_from_dict
  \/ Call_Line2D_from_tuple
  \/ Call_Line2D_slope
  \/ Call_Line2D_x_intercept
  \/ Call_Line2D_y_intercept
  \/ Call_Line2D_is_parallel
  \/ Call_Line2D_is_perpendicular
  \/ Call_LineSegment2D_run
  \/ Call_LineSegment2D_rise
  \/ Call_LineSegment2D_length
  \/ Call_translate_x
  \/ Call_translate_y
  \/ Call_translate
  \/ Call_mirror_x_axis
  \/ Call_mirror_y_axis
  \/ Call_Point2D
  \/ Call_Point2D_ne
  \/ Call_rotate_about_origin
  \/ Call_rotate_point
  \/ Call_direction
  \/ Call_Vector2D_from_str
  \/ Call_is_between
  \/ Call_LineSegment2D_is_parallel

SpecCalls == InitCalls /\ [][NextCalls]_vars

Done(f) == call.fn = f /\ call.done

(***************************************************************************)
(* Reference notions the claims are stated against                         *)
(***************************************************************************)

\* the cross product (b - a) x (c - b)
Cross(a, b, c) == (b.x - a.x) * (c.y - b.y) - (b.y - a.y) * (c.x - b.x)

\* a, b and c lie on one line (or two of them coincide)
Collinear(a, b, c) == (b.x - a.x) * (c.y - a.y) - (b.y - a.y) * (c.x - a.x) = 0

\* p lies on the closed segment s: on its line and inside its bounding box
PointOnSegment(p, s) ==
  /\ Collinear(s.start_point, s.end_point, p)
  /\ min(s.start_point.x, s.end_point.x) <= p.x
  /\ p.x <= max(s.start_point.x, s.end_point.x)
  /\ min(s.start_point.y, s.end_point.y) <= p.y
  /\ p.y <= max(s.start_point.y, s.end_point.y)

\* strictly opposite sides: the two cross products have opposite signs
OppositeSides(s, p, q) ==
  LET c1 == Cross(s.start_point, s.end_point, p)
      c2 == Cross(s.start_point, s.end_point, q)
  IN  (c1 > 0 /\ c2 < 0) \/ (c1 < 0 /\ c2 > 0)

\* the closed segments s and t have a point in common
SharePoint(s, t) ==
  \/ OppositeSides(s, t.start_point, t.end_point) /\
     OppositeSides(t, s.start_point, s.end_point)
  \/ PointOnSegment(t.start_point, s)
  \/ PointOnSegment(t.end_point, s)
  \/ PointOnSegment(s.start_point, t)
  \/ PointOnSegment(s.end_point, t)

(***************************************************************************)
(* Claims about get_orientation and quadrant (SpecCalls)                   *)
(***************************************************************************)

\* C2 as stated: get_orientation follows the sign of (p2-p1) x (p3-p2),
\* positive giving CLOCKWISE, negative COUNTERCLOCKWISE and zero COLINEAR.
C2_AsStated ==
  Done("get_orientation") =>
    LET c == Cross(call.args[1], call.args[2], call.args[3])
    IN  call.ret = (IF c > 0 THEN CLOCKWISE
                    ELSE IF c < 0 THEN COUNTERCLOCKWISE ELSE COLINEAR)

\* C2 amended: get_orientation follows the sign of (p2-p1) x (p3-p2) with
\* positive giving COUNTERCLOCKWISE, negative CLOCKWISE and zero COLINEAR;
\* three points on one line always give COLINEAR.
C2_OrientationSign ==
  Done("get_orientation") =>
    LET c == Cross(call.args[1], call.args[2], call.args[3])
    IN  /\ call.ret = (IF c > 0 THEN COUNTERCLOCKWISE
                       ELSE IF c < 0 THEN CLOCKWISE ELSE COLINEAR)
        /\ Collinear(call.args[1], call.args[2], call.args[3]) => call.ret = COLINEAR

C2_Witness ==
  /\ Done("get_orientation")
  /\ Cross(call.args[1], call.args[2], call.args[3]) > 0
  /\ call.ret = COUNTERCLOCKWISE

\* C3: get_orientation(A, B, C) and get_orientation(B, A, C) are opposite
\* (one CLOCKWISE, the other COUNTERCLOCKWISE) for a non-collinear triple and
\* both COLINEAR for a collinear one.
C3_OrientationSymmetry ==
  Done("get_orientation") =>
    LET a == call.args[1]
        b == call.args[2]
        c == call.args[3]
        flipped == get_orientation(b, a, c)
    IN  IF Collinear(a, b, c)
        THEN call.ret = COLINEAR /\ flipped = COLINEAR
        ELSE {call.ret, flipped} = {CLOCKWISE, COUNTERCLOCKWISE}

C3_Witness ==
  /\ Done("get_orientation")
  /\ ~Collinear(call.args[1], call.args[2], call.args[3])
  /\ call.ret = CLOCKWISE
  /\ get_orientation(call.args[2], call.args[1], call.args[3]) = COUNTERCLOCKWISE

\* C9: quadrant is defined for every point: ORIGIN exactly at (0, 0), the
\* sign table off the axes, and one of ONE..FOUR on exactly one axis.
C9_QuadrantTable ==
  Done("quadrant") =>
    LET p == call.args[1]
    IN  /\ call.ret \in Quadrant
        /\ (call.ret = ORIGIN) <=> (p.x = 0 /\ p.y = 0)
        /\ (p.x > 0 /\ p.y > 0) => call.ret = ONE
        /\ (p.x < 0 /\ p.y > 0) => call.ret = TWO
        /\ (p.x < 0 /\ p.y < 0) => call.ret = THREE
        /\ (p.x > 0 /\ p.y < 0) => call.ret = FOUR
        /\ ((p.x = 0) # (p.y = 0)) => call.ret \in {ONE, TWO, THREE, FOUR}

C9_Witness ==
  /\ Done("quadrant")
  /\ call.args[1].x = 0
  /\ call.args[1].y > 0
  /\ call.ret = TWO

(***************************************************************************)
(* Claims about LineSegment2D.intersects (SpecCalls)                       *)
(***************************************************************************)

\* C1: for two valid segments, intersects returns true if and only if the
\* closed segments share at least one point (a proper crossing, or an
\* endpoint of one lying on the other).
C1_IntersectsIffSharePoint ==
  Done("intersects") =>
    (call.ret <=> SharePoint(call.args[1], call.args[2]))

(***************************************************************************)
(* Claims about Point2D.from_str (SpecCalls)                               *)
(***************************************************************************)

\* a token that writes a number: an optional sign, digits, at most one point
IsNumberLiteral(tok) ==
  LET body == IF Len(tok) > 0 /\ tok[1] = "-" THEN SubSeq(tok, 2, Len(tok)) ELSE tok
  IN  /\ \E i \in 1..Len(body) : body[i] \in Digits
      /\ \A i \in 1..Len(body) : body[i] \in Digits \cup {"."}
      /\ Cardinality({ i \in 1..Len(body) : body[i] = "." }) <= 1

\* two segments of one line that lie apart are reported as not intersecting
C25_Witness ==
  /\ Done("intersects")
  /\ call.args[1] = Segment(Point(0, 0), Point(0, 1))
  /\ call.args[2] = Segment(Point(0, 3), Point(0, 2))
  /\ call.ret = FALSE

\* the text before the first ',' and the text between the first and second ','
FirstToken(s) ==
  LET i == CHOOSE k \in 1..Len(s) : s[k] = "," /\ \A j \in 1..(k - 1) : s[j] # ","
  IN  SubSeq(s, 1, i - 1)

SecondToken(s) ==
  LET i == CHOOSE k \in 1..Len(s) : s[k] = "," /\ \A j \in 1..(k - 1) : s[j] # ","
      rest == SubSeq(s, i + 1, Len(s))
  IN  IF Contains(rest, ",") THEN FirstToken(rest) ELSE rest

\* C10: Point2D.from_str fails with FormatError for every string without
\* ',' and with InvalidConstructor for every string with ',' whose first
\* or second token is not numeric; a string without ',' never yields
\* InvalidConstructor.
C10_FromStrRejects ==
  Done("Point2D.from_str") =>
    LET s == call.args[1]
    IN  /\ ~Contains(s, ",") => call.ret.kind = "FormatError"
        /\ (Contains(s, ",") /\
            (~IsNumberLiteral(FirstToken(s)) \/ ~IsNumberLiteral(SecondToken(s))))
             => call.ret.kind = "InvalidConstructor"

C10_Witness ==
  /\ Done("Point2D.from_str")
  /\ call.args[1] = <<"1", ",", "a">>
  /\ call.ret.kind = "InvalidConstructor"

(***************************************************************************)
(* Claims about the construction of segments (SpecCalls)                   *)
(***************************************************************************)

\* C4: LineSegment2D(start_point, end_point) fails with InvalidLineSegment
\* exactly when the two points are equal, and for two distinct points it
\* produces a segment holding those two endpoints.
C4_ConstructorContract ==
  Done("LineSegment2D") =>
    LET p == call.args[1]
        q == call.args[2]
    IN  /\ (call.ret.kind = "InvalidLineSegment") <=> (p.x = q.x /\ p.y = q.y)
        /\ ~(p.x = q.x /\ p.y = q.y) =>
             /\ call.ret.kind = "ok"
             /\ call.ret.value = Segment(p, q)

\* the string is "x:y,x:y" with four numbers, and the two points are the same
WritesEqualPoints(s) ==
  /\ Contains(s, ",")
  /\ Len(split(s, ",")) = 2
  /\ \A i \in 1..2 :
       /\ Len(split(split(s, ",")[i], ":")) = 2
       /\ \A j \in 1..2 : isnumeric(split(split(s, ",")[i], ":")[j])
  /\ \A j \in 1..2 :
       float(split(split(s, ",")[1], ":")[j]) = float(split(split(s, ",")[2], ":")[j])

\* the two points of the input of a factory call are equal
EqualPointsGiven ==
  \/ /\ call.fn \in {"from_tuple", "from_list"}
     /\ call.args[2][1] = call.args[2][2]
  \/ /\ call.fn = "from_dict"
     /\ {"start-point", "end-point"} \subseteq DOMAIN call.args[2]
     /\ call.args[2]["start-point"] = call.args[2]["end-point"]
  \/ /\ call.fn = "LineSegment2D.from_str"
     /\ WritesEqualPoints(call.args[2])

\* C5: every segment factory given input whose two points are equal fails
\* with InvalidLineSegment; none returns a segment with equal endpoints and
\* none reports the degenerate case as another error kind.
C5_FactoriesRejectDegenerate ==
  (call.done /\ EqualPointsGiven) => call.ret.kind = "InvalidLineSegment"

(***************************************************************************)
(* Claims about Vector2D (SpecCalls)                                       *)
(***************************************************************************)
IsZeroVector(v) == v.x.n = 0 /\ v.y.n = 0

\* the component-wise result the operation of the call stands for
ComponentWise ==
  LET v == call.args[2]
      o == call.args[3]
  IN  CASE call.fn = "__add__"     -> Vector(FracAdd(v.x, o.x), FracAdd(v.y, o.y))
        [] call.fn = "__sub__"     -> Vector(FracSub(v.x, o.x), FracSub(v.y, o.y))
        [] call.fn = "__mul__"     -> Vector(FracMul(v.x, o.val), FracMul(v.y, o.val))
        [] call.fn = "__truediv__" -> Vector(FracDiv(v.x, o.val), FracDiv(v.y, o.val))

ArithmeticCall ==
  /\ call.fn \in {"__add__", "__sub__", "__mul__", "__truediv__"}
  /\ call.fn = "__truediv__" => call.args[3].val.n # 0

\* C7: no Vector2D with both components zero is produced: Vector2D(0, 0)
\* fails with InvalidVector, and so does every v + w, v - w, v * k and v / k
\* whose component-wise result is (0, 0).
C7_NoZeroVector ==
  /\ (Done("Vector2D") /\ call.args[1].n = 0 /\ call.args[2].n = 0)
       => call.ret.kind = "InvalidVector"
  /\ (call.done /\ ArithmeticCall /\ IsZeroVector(ComponentWise))
       => call.ret.kind = "InvalidVector"
  /\ (call.done /\ (ArithmeticCall \/ call.fn = "Vector2D") /\ call.ret.kind = "ok")
       => ~IsZeroVector(call.ret.value)

(***************************************************************************)
(* Claims about the mutators of a segment (Spec)                           *)
(***************************************************************************)

C11_RoundTrip ==
  Done("round_trip") =>
    /\ call.ret.kind = "ok"
    /\ call.ret.value = call.args[3]

LineFactories == {"Line2D.from_str", "Line2D.from_dict", "Line2D.from_tuple"}

\* the two points a Line2D factory call is given or reads are equal
CoincidentPointsGiven ==
  \/ /\ call.fn = "Line2D.from_tuple"
     /\ call.args[2][1] = call.args[2][2]
  \/ /\ call.fn = "Line2D.from_dict"
     /\ {"Point-A", "Point-B"} \subseteq DOMAIN call.args[2]
     /\ call.args[2]["Point-A"] = call.args[2]["Point-B"]
  \/ /\ call.fn = "Line2D.from_str"
     /\ WritesEqualPoints(call.args[2])

\* C12: each Line2D factory (from_str, from_dict, from_tuple) fails with
\* InvalidConstructor whenever the two points it parsed or received coincide,
\* and no factory returns a Line2D with point_a equal to point_b.
C12_LineFactoriesRejectCoincident ==
  /\ (call.done /\ CoincidentPointsGiven) => call.ret.kind = "InvalidConstructor"
  /\ (call.done /\ call.fn \in LineFactories /\ call.ret.kind = "ok")
       => ~Point2D_eq(call.ret.value.point_a, call.ret.value.point_b)

(***************************************************************************)
(* Claims about the properties of a Line2D (SpecCalls)                     *)
(***************************************************************************)
Vertical(l)   == l.point_a.x = l.point_b.x
Horizontal(l) == l.point_a.y = l.point_b.y

\* rise over run of a line that is not vertical
RiseOverRun(l) == Frac(l.point_a.y - l.point_b.y, l.point_a.x - l.point_b.x)

\* C13: Line2D.slope never raises: for a vertical line it returns the
\* undefined sentinel, and for every other line it returns
\* (y_a - y_b) / (x_a - x_b).
C13_SlopeTotal ==
  Done("Line2D.slope") =>
    /\ call.ret.kind = "ok"
    /\ call.ret.value = (IF Vertical(call.args[1]) THEN UNDEFINED
                         ELSE RiseOverRun(call.args[1]))

\* C14: for two vertical lines is_parallel is true; for two lines that are
\* not vertical it is true exactly when their slopes are equal.
C14_IsParallel ==
  (Done("Line2D.is_parallel") /\ call.args[2].cls = "Line2D") =>
    LET a == call.args[1]
        b == call.args[2].value
    IN  /\ (Vertical(a) /\ Vertical(b)) =>
             (call.ret.kind = "ok" /\ call.ret.value = TRUE)
        /\ (~Vertical(a) /\ ~Vertical(b)) =>
             /\ call.ret.kind = "ok"
             /\ call.ret.value = (RiseOverRun(a) = RiseOverRun(b))

\* the answer C15 states for two lines
PerpendicularAsStated(a, b) ==
  IF Vertical(a) /\ Vertical(b) THEN FALSE
  ELSE IF Vertical(a) THEN Horizontal(b)
  ELSE IF Vertical(b) THEN Horizontal(a)
  ELSE IF Horizontal(b) THEN FALSE
  ELSE RiseOverRun(a) = FracDiv(Num(0 - 1), RiseOverRun(b))

\* C15: is_perpendicular returns, without raising, true for a vertical line
\* and a horizontal one in either order, false for two vertical lines, and
\* otherwise true exactly when slope_a = -1 / slope_b.
C15_IsPerpendicular ==
  (Done("Line2D.is_perpendicular") /\ call.args[2].cls = "Line2D") =>
    /\ call.ret.kind = "ok"
    /\ call.ret.value = PerpendicularAsStated(call.args[1], call.args[2].value)

\* the point of the line l on the x axis: an endpoint that lies on the axis,
\* else the solution of the line's equation (l is not horizontal)
XAxisPoint(l) ==
  IF l.point_a.y = 0 THEN l.point_a
  ELSE IF l.point_b.y = 0 THEN l.point_b
  ELSE Point(FracSub(Num(l.point_b.x),
                     FracMul(Num(l.point_b.y),
                             Frac(l.point_a.x - l.point_b.x,
                                  l.point_a.y - l.point_b.y))),
             Num(0))

\* the point of the line l on the y axis (l is not vertical)
YAxisPoint(l) ==
  IF l.point_a.x = 0 THEN l.point_a
  ELSE IF l.point_b.x = 0 THEN l.point_b
  ELSE Point(Num(0),
             FracSub(Num(l.point_b.y),
                     FracMul(Num(l.point_b.x), RiseOverRun(l))))

\* C16: for a line that crosses the x axis x_intercept returns the point of
\* the line with y = 0, and for a line that crosses the y axis y_intercept
\* returns the point of the line with x = 0; an endpoint that lies on the
\* axis is the result.
C16_Intercepts ==
  /\ (Done("Line2D.x_intercept") /\
      (~Horizontal(call.args[1]) \/ call.args[1].point_a.y = 0)) =>
       /\ call.ret.kind = "ok"
       /\ call.ret.value = XAxisPoint(call.args[1])
  /\ (Done("Line2D.y_intercept") /\
      (~Vertical(call.args[1]) \/ call.args[1].point_a.x = 0)) =>
       /\ call.ret.kind = "ok"
       /\ call.ret.value = YAxisPoint(call.args[1])

(***************************************************************************)
(* Claims about run, rise and length of a segment (SpecCalls)              *)
(***************************************************************************)

\* C17: for a segment with integer endpoints run() = (x_start - x_end)^2,
\* rise() = (y_start - y_end)^2 and length() = sqrt(run + rise): the square
\* of the length is the squared Euclidean distance between the endpoints.
C17_LengthIsDistance ==
  /\ Done("LineSegment2D.run") =>
       call.ret = (call.args[1].start_point.x - call.args[1].end_point.x) ^ 2
  /\ Done("LineSegment2D.rise") =>
       call.ret = (call.args[1].start_point.y - call.args[1].end_point.y) ^ 2
  /\ Done("LineSegment2D.length") =>
       call.ret.radicand =
         (call.args[1].start_point.x - call.args[1].end_point.x) ^ 2
         + (call.args[1].start_point.y - call.args[1].end_point.y) ^ 2

(***************************************************************************)
(* Claims about the mutators, one call at a time (SpecCalls)               *)
(***************************************************************************)

\* C18: translate_x(d) adds d to the x of both endpoints and leaves both y;
\* translate_y(d) adds d to both y and leaves both x; translate(dx, dy) does
\* what translate_x(dx) followed by translate_y(dy) does; each succeeds, and
\* translate(dx, dy) followed by translate(-dx, -dy) restores the endpoints.
C18_Translate ==
  /\ Done("translate_x") =>
       LET p == call.args[1][1]
           q == call.args[1][2]
           d == call.args[3]
       IN  call.ret = <<Point(p.x + d, p.y), Point(q.x + d, q.y)>>
  /\ Done("translate_y") =>
       LET p == call.args[1][1]
           q == call.args[1][2]
           d == call.args[3]
       IN  call.ret = <<Point(p.x, p.y + d), Point(q.x, q.y + d)>>
  /\ Done("translate") =>
       LET p  == call.args[1][1]
           q  == call.args[1][2]
           dx == call.args[3]
           dy == call.args[4]
       IN  /\ call.ret = <<Point(p.x + dx, p.y + dy), Point(q.x + dx, q.y + dy)>>
           /\ call.ret = translate_y(translate_x(call.args[1], call.args[2], dx),
                                     call.args[2], dy)
           /\ translate(call.ret, call.args[2], 0 - dx, 0 - dy) = call.args[1]

\* a translate by a shift that is not zero in x nor in y has returned
C18_Witness ==
  /\ Done("translate")
  /\ call.args[3] = 1
  /\ call.args[4] = 0 - 1
  /\ call.ret # call.args[1]

\* C19: mirror_x_axis negates y and leaves x; mirror_y_axis negates x and
\* leaves y; either one applied twice restores the point.
C19_Mirror ==
  /\ Done("mirror_x_axis") =>
       LET p == call.args[1][1]
       IN  /\ call.ret[1] = Point(p.x, 0 - p.y)
           /\ mirror_x_axis(call.ret, 1) = call.args[1]
  /\ Done("mirror_y_axis") =>
       LET p == call.args[1][1]
       IN  /\ call.ret[1] = Point(0 - p.x, p.y)
           /\ mirror_y_axis(call.ret, 1) = call.args[1]

\* C20: v + w and v - w are component-wise whenever that result is not the
\* zero vector: (v.x + w.x, v.y + w.y) and (v.x - w.x, v.y - w.y).
C20_ComponentWise ==
  (call.done /\ call.fn \in {"__add__", "__sub__"} /\ ~IsZeroVector(ComponentWise))
    => /\ call.ret.kind = "ok"
       /\ call.ret.value = ComponentWise

(***************************************************************************)
(* Claims about direction, construction, comparison and rotation           *)
(* (SpecCalls)                                                             *)
(***************************************************************************)

\* C21: for every Vector2D with exactly one component zero, direction
\* returns +90 or -90 and does not fail with a division by zero.
C21_DirectionOnAxes ==
  (Done("direction") /\ ((call.args[2].x.n = 0) # (call.args[2].y.n = 0))) =>
    /\ call.ret.kind = "ok"
    /\ call.ret.value.atan.n = 0
    /\ call.ret.value.degrees \in {90, 0 - 90}

\* the string a from_str call of Line2D, LineSegment2D or Vector2D is given
FromStrCall == call.fn \in {"Line2D.from_str", "LineSegment2D.from_str", "Vector2D.from_str"}
FromStrArg  == IF call.fn = "Vector2D.from_str" THEN call.args[1] ELSE call.args[2]

\* C22 as stated: a string whose ','-separated part count is not two makes
\* from_str of Line2D, LineSegment2D and Vector2D fail with FormatError.
C22_AsStated ==
  (call.done /\ FromStrCall /\ Len(split(FromStrArg, ",")) # 2)
    => call.ret.kind = "FormatError"

\* C22 amended: a string whose ','-separated part count is not two is never
\* accepted: with no ',' at all the factory fails with FormatError, with
\* more than two parts it fails with InvalidConstructor.
C22_WrongFieldCount ==
  (call.done /\ FromStrCall /\ Len(split(FromStrArg, ",")) # 2)
    => call.ret.kind = (IF Contains(FromStrArg, ",") THEN "InvalidConstructor"
                        ELSE "FormatError")

\* a Vector2D.from_str of three numeric fields has failed
C22_Witness ==
  /\ Done("Vector2D.from_str")
  /\ call.args[1] = <<"1", ",", "1", ",">>
  /\ call.ret.kind = "InvalidConstructor"

\* C23: Point2D(x, y) terminates and yields a point with the fields x and y;
\* likewise Vector2D with a non-zero component and LineSegment2D with
\* distinct endpoints terminate with a value.
C23_ConstructionTotal ==
  /\ Done("Point2D") =>
       (call.ret.kind = "ok" /\ call.ret.value = Point(call.args[1], call.args[2]))
  /\ (Done("Vector2D") /\ (call.args[1].n # 0 \/ call.args[2].n # 0)) =>
       call.ret.kind = "ok"
  /\ (Done("LineSegment2D") /\ call.args[1] # call.args[2]) =>
       call.ret.kind = "ok"

\* C24: is_between(p) is true exactly when p lies on the segment: the
\* distances from p to the two endpoints add up to the distance between the
\* endpoints.
C24_IsBetween ==
  Done("is_between") => (call.ret <=> PointOnSegment(call.args[2], call.args[1]))

\* the four endpoints of s and t lie on one line
AllCollinear(s, t) ==
  /\ Collinear(s.start_point, s.end_point, t.start_point)
  /\ Collinear(s.start_point, s.end_point, t.end_point)

\* C25: when the four endpoints lie on one line, intersects is true exactly
\* when the segments overlap or touch.
C25_CollinearIntersects ==
  (Done("intersects") /\ AllCollinear(call.args[1], call.args[2])) =>
    (call.ret <=> SharePoint(call.args[1], call.args[2]))

\* the text before the first ':' and after the last ':' of a part
XToken(part) == split(part, ":")[1]
YToken(part) == split(part, ":")[Len(split(part, ":"))]

\* the error of one point "x:y" of the string, "none" when it has none
PointError(part) ==
  IF ~Contains(part, ":") THEN "FormatError"
  ELSE IF ~isnumeric(XToken(part)) \/ ~isnumeric(YToken(part)) THEN "InvalidConstructor"
  ELSE "none"

\* the error the stated order gives for a string, "none" when no check fails
FromStrError(s) ==
  LET commas == Cardinality({ i \in 1..Len(s) : s[i] = "," })
      parts  == split(s, ",")
  IN  IF commas = 0 THEN "FormatError"
      ELSE IF commas > 1 THEN "InvalidConstructor"
      ELSE IF PointError(parts[1]) # "none" THEN PointError(parts[1])
      ELSE PointError(parts[2])

\* C26: Line2D.from_str and the segment from_str report the error of the
\* first failing check in the stated order, and return a value only when
\* every check passes.
C26_FromStrErrorOrder ==
  (call.done /\ call.fn \in {"Line2D.from_str", "LineSegment2D.from_str"}) =>
    /\ FromStrError(call.args[2]) # "none" => call.ret.kind = FromStrError(call.args[2])
    /\ call.ret.kind = "ok" => FromStrError(call.args[2]) = "none"

\* a Line2D.from_str whose first point is well formed and whose second point
\* has no ':' has failed with FormatError
C26_Witness ==
  /\ Done("Line2D.from_str")
  /\ call.args[2] = <<"1", ":", "2", ",", "1">>
  /\ call.ret.kind = "FormatError"

\* C27: a rotation by the angle 0, about the origin or about a pivot, in
\* either unit and either direction, leaves x and y unchanged.
C27_RotationByZero ==
  /\ (Done("rotate_about_origin") /\ call.args[3] \in {CLOCKWISE, COUNTERCLOCKWISE})
       => call.ret = call.args[1]
  /\ (Done("rotate_point") /\ call.args[4] \in {CLOCKWISE, COUNTERCLOCKWISE})
       => call.ret = call.args[1]

\* C28: p != q is the negation of p == q: true exactly when the x or the y
\* of the two points differ.
C28_NeNegatesEq ==
  Done("Point2D.__ne__") =>
    /\ call.ret <=> ~Point2D_eq(call.args[1], call.args[2])
    /\ call.ret <=> (call.args[1].x # call.args[2].x \/ call.args[1].y # call.args[2].y)

\* s with its endpoints exchanged
Reversed(s) == Segment(s.end_point, s.start_point)

\* C29: s.intersects(t) equals t.intersects(s), and exchanging the start and
\* the end of either segment does not change the result.
C29_IntersectsSymmetric ==
  Done("intersects") =>
    /\ call.ret = intersects(call.args[2], call.args[1])
    /\ call.ret = intersects(Reversed(call.args[1]), call.args[2])
    /\ call.ret = intersects(call.args[1], Reversed(call.args[2]))

\* C30: when is_parallel is true for two segments that are not vertical,
\* the cross product of their directions dx1*dy2 - dy1*dx2 is zero.
C30_ParallelIsGeometric ==
  LET s == call.args[1]
      t == call.args[2]
  IN  (/\ Done("LineSegment2D.is_parallel")
       /\ s.start_point.x # s.end_point.x
       /\ t.start_point.x # t.end_point.x
       /\ call.ret.kind = "ok"
       /\ call.ret.value)
        => (s.start_point.x - s.end_point.x) * (t.start_point.y - t.end_point.y)
           - (s.start_point.y - s.end_point.y) * (t.start_point.x - t.end_point.x) = 0

====
